---- MODULE Spec2Model ----
(***************************************************************************)
(* Supervised source localization (waspaa_paper.ipynb).                    *)
(*                                                                         *)
(* The notebook is a linear pipeline:                                      *)
(*   cov_matrices, W, eig(W)            (cell 3, training stage)           *)
(*   A = [W ; 0], fill of the test rows (cells 4 and 5)                    *)
(*   S, A_tilde                         (cell 7)                           *)
(*   singular_vects                     (cell 8)                           *)
(*   thetas_pred, thetas_gt, rmse       (cells 9 and 10)                   *)
(*                                                                         *)
(* Numbers.  Feature vectors have one real component (D = 1), a covariance *)
(* matrix is the 1x1 matrix <<num, den>> (the rational num/den).  A kernel *)
(* value exp(-nom/epsilon) is kept in fixed point: with epsilon chosen so  *)
(* that the kernel halves for every half unit of nom, the value is         *)
(* 2^(KernelBits - 2*nom) / 2^KernelBits, and it underflows to 0 once      *)
(* 2*nom exceeds KernelBits.  Irrational values (1/sqrt(S), 1/sqrt(lambda))*)
(* are kept exactly, as the integers under the root.                       *)
(*                                                                         *)
(* Spec        : cells 3 to 8, from the features to the embedding.         *)
(* SpecInterp  : cells 9 and 10, for an embedding drawn from a bounded set,*)
(*               executed twice with different test_Set_spherical.         *)
(***************************************************************************)
EXTENDS Integers, Sequences, FiniteSets

VARIABLES
    pc,                     \* the cell (or loop position) the run is at
    m, M, d, k,             \* parameters of cell 2, fixed at run start
    train_feat, test_feat,  \* feature_Vector_src(j), feature_Vector_testPos(i)
    cov_matrices,           \* cov_matrices[j], j in 0..m-1
    W, eig_vals, eig_vects, \* cell 3
    A, i, j, writes,        \* cells 4 and 5; writes[r][c] counts the stores to A[r][c]
    A_tilde,                \* cell 7
    singular_vects,         \* cell 8
    training_Set_spherical, test_Set_spherical,
    thetas_pred, thetas_gt, rmse_val,   \* cells 9 and 10
    run, first_run          \* execution number, and what execution 1 produced

vars == <<pc, m, M, d, k, train_feat, test_feat, cov_matrices, W, eig_vals,
          eig_vects, A, i, j, writes, A_tilde, singular_vects,
          training_Set_spherical, test_Set_spherical, thetas_pred, thetas_gt,
          rmse_val, run, first_run>>

\* ------------------------------------------------------------------ bounds
MaxTrain == 2        \* m ranges over 1..MaxTrain
MaxTest == 2         \* M ranges over 0..MaxTest
MaxPrec == 2         \* a covariance is 1/p, p in 1..MaxPrec
KernelBits == 3      \* fixed-point fraction bits of a kernel value
CondTol == 2         \* a covariance 1/p with p >= CondTol counts as ill-conditioned
MaxK == 2            \* k ranges over 1..MaxK

None == "none"

\* ------------------------------------------------------------------ helpers
RECURSIVE Pow2(_)
Pow2(n) == IF n = 0 THEN 1 ELSE 2 * Pow2(n - 1)

RECURSIVE SumOver(_, _)
SumOver(S, f) ==
    IF S = {} THEN 0
    ELSE LET x == CHOOSE y \in S : TRUE IN f[x] + SumOver(S \ {x}, f)

\* f[lo] + ... + f[hi]
RECURSIVE SumRange(_, _, _)
SumRange(f, lo, hi) == IF lo > hi THEN 0 ELSE f[lo] + SumRange(f, lo + 1, hi)

Abs(x) == IF x < 0 THEN -x ELSE x

Unit == Pow2(KernelBits)

\* np.exp(-nom/epsilon) for nom = num/den (2*num a multiple of den); 0 on underflow.
NpExp(num, den) ==
    LET q == (2 * num) \div den
    IN  IF q > KernelBits THEN 0 ELSE Pow2(KernelBits - q)

\* np.linalg.inv of a 1x1 matrix: LinAlgError("Singular matrix") for 0, the
\* reciprocal otherwise, whatever its magnitude.
NpLinalgInv(c) == IF c[1] = 0 THEN "LinAlgError" ELSE <<c[2], c[1]>>

IllConditioned(c) == c[1] = 0 \/ c[2] >= CondTol * c[1]

Rows == 0 .. (m + M - 1)
Train == 0 .. (m - 1)
Tests == 0 .. (M - 1)

\* ------------------------------------------------------------------ cell 3
\* One entry of the training kernel with the metric of source b alone.
AffinityEntry_covJ(cov, feats, a, b) ==
    LET x  == feats[a] - feats[b]
        ib == NpLinalgInv(cov[b])
    IN  NpExp(x * x * ib[1], ib[2])

\* One entry of the training kernel: exp(-d_M(T_a, T_b)^2 / epsilon), d_M taken
\* under the pair-averaged inverse covariance (the symmetric training kernel).
AffinityEntry(cov, feats, a, b) ==
    LET x  == feats[a] - feats[b]
        ia == NpLinalgInv(cov[a])
        ib == NpLinalgInv(cov[b])
    IN  NpExp(x * x * (ia[1] * ib[2] + ib[1] * ia[2]), 2 * ia[2] * ib[2])

compute_affinity_matrix(cov, feats, n) ==
    [a \in 0 .. (n - 1) |-> [b \in 0 .. (n - 1) |-> AffinityEntry(cov, feats, a, b)]]

ComputeAffinity ==
    /\ pc = "affinity"
    /\ W' = compute_affinity_matrix(cov_matrices, train_feat, m)
    /\ pc' = "eig"
    /\ UNCHANGED <<m, M, d, k, train_feat, test_feat, cov_matrices, eig_vals,
                   eig_vects, A, i, j, writes, A_tilde, singular_vects,
                   training_Set_spherical, test_Set_spherical, thetas_pred,
                   thetas_gt, rmse_val, run, first_run>>

\* np.linalg.eig(W).  An eigenvector is kept as an integer direction v (numpy
\* returns v/|v|) with entries in -1..1 and a positive first non-zero entry; the
\* eigenvalue is in kernel fixed point.  The columns come back in any order.
\* A matrix without n such eigenvectors (irrational eigenpairs) is not followed
\* past this call.
MatVec(Mx, v, r) ==
    LET n == Cardinality(DOMAIN v)
    IN  SumRange([c \in 0 .. (n - 1) |-> Mx[r][c] * v[c]], 0, n - 1)

Lead(v) == CHOOSE r \in DOMAIN v : v[r] # 0 /\ \A s \in DOMAIN v : s < r => v[s] = 0

Directions(n) ==
    {v \in [0 .. (n - 1) -> -1 .. 1] :
        /\ \E r \in DOMAIN v : v[r] # 0
        /\ v[Lead(v)] = 1}

EigenvalueOf(Mx, v) == MatVec(Mx, v, Lead(v))

IsEigenvector(Mx, v) ==
    \A r \in DOMAIN v : MatVec(Mx, v, r) = EigenvalueOf(Mx, v) * v[r]

\* The determinant of the n x n matrix whose columns are f[0], ..., f[n-1]
\* (expansion along the first column).
RECURSIVE Det(_, _)
Det(f, n) ==
    IF n = 0 THEN 1
    ELSE SumRange(
           [r \in 0 .. (n - 1) |->
               IF f[0][r] = 0 THEN 0
               ELSE (IF r % 2 = 0 THEN 1 ELSE -1) * f[0][r] *
                    Det([c \in 0 .. (n - 2) |->
                            [q \in 0 .. (n - 2) |->
                                f[c + 1][IF q < r THEN q ELSE q + 1]]], n - 1)],
           0, n - 1)

\* Every eig_vects a call may return: n linearly independent eigenvectors.
NpLinalgEig(Mx, n) ==
    LET E == {v \in Directions(n) : IsEigenvector(Mx, v)}
    IN  {f \in [0 .. (n - 1) -> E] : Det(f, n) # 0}

Eig ==
    /\ pc = "eig"
    /\ \E f \in NpLinalgEig(W, m) :
          /\ eig_vects' = f
          /\ eig_vals' = [c \in 0 .. (m - 1) |-> EigenvalueOf(W, f[c])]
    /\ pc' = "extend"
    /\ UNCHANGED <<m, M, d, k, train_feat, test_feat, cov_matrices, W, A, i, j,
                   writes, A_tilde, singular_vects, training_Set_spherical,
                   test_Set_spherical, thetas_pred, thetas_gt, rmse_val, run,
                   first_run>>

\* ------------------------------------------------------------------ cells 4, 5
\* A = W.copy(); A = np.c_[A.T, np.zeros((m, M))].T
ExtendRows(Wm, n, nTest) ==
    [r \in 0 .. (n + nTest - 1) |-> [c \in 0 .. (n - 1) |->
        IF r < n THEN Wm[r][c] ELSE 0]]

ExtendA ==
    /\ pc = "extend"
    /\ A' = ExtendRows(W, m, M)
    /\ writes' = [r \in Rows |-> [c \in Train |-> 0]]
    /\ i' = 0
    /\ j' = 0
    /\ pc' = IF M = 0 THEN "normalize" ELSE "fill"
    /\ UNCHANGED <<m, M, d, k, train_feat, test_feat, cov_matrices, W, eig_vals,
                   eig_vects, A_tilde, singular_vects, training_Set_spherical,
                   test_Set_spherical, thetas_pred, thetas_gt, rmse_val, run,
                   first_run>>

\* nom = (test - train) @ inv_cov_mat_j @ (test - train).T ; np.exp(-nom/epsilon)
TestKernel(testF, trainF, cov, ti, tj) ==
    LET x   == testF[ti] - trainF[tj]
        inv == NpLinalgInv(cov[tj])
    IN  NpExp(x * x * inv[1], inv[2])

\* The row of A that the body of the loop stores to.
StoreRow_noOffset(ti, n) == ti

StoreRow(ti, n) == ti + n

\* One iteration of the outer loop (test source i): for j in range(m) the store
\* A[i+m, j] = np.exp(-nom/epsilon).
FillStep ==
    /\ pc = "fill"
    /\ LET r == StoreRow(i, m)
       IN  /\ A' = [A EXCEPT ![r] =
                      [c \in Train |-> TestKernel(test_feat, train_feat, cov_matrices, i, c)]]
           /\ writes' = [writes EXCEPT ![r] = [c \in Train |-> @[c] + 1]]
    /\ j' = m - 1
    /\ i' = i + 1
    /\ pc' = IF i + 1 < M THEN "fill" ELSE "normalize"
    /\ UNCHANGED <<m, M, d, k, train_feat, test_feat, cov_matrices, W, eig_vals,
                   eig_vects, A_tilde, singular_vects, training_Set_spherical,
                   test_Set_spherical, thetas_pred, thetas_gt, rmse_val, run,
                   first_run>>

\* ------------------------------------------------------------------ cell 7
\* A.T @ A @ np.ones((m, 1)) over the test rows only.
DegreeVector_testRows(Am, n, nTest) ==
    [c \in 0 .. (n - 1) |->
        SumRange([r \in n .. (n + nTest - 1) |->
                     Am[r][c] * SumRange(Am[r], 0, n - 1)], n, n + nTest - 1)]

\* A.T @ A @ np.ones((m, 1)): component c is sum_r A[r][c] * (sum_b A[r][b]).
DegreeVector(Am, n, nTest) ==
    [c \in 0 .. (n - 1) |->
        SumRange([r \in 0 .. (n + nTest - 1) |->
                     Am[r][c] * SumRange(Am[r], 0, n - 1)], 0, n + nTest - 1)]

\* A @ np.diag(v): entry (r, c) is A[r][c] * v[c], v[c] = 1/sqrt(S[c]); kept as
\* the pair <<A[r][c], S[c]>>.
ScaleColumns(Am, S) == [r \in DOMAIN Am |-> [c \in DOMAIN S |-> <<Am[r][c], S[c]>>]]

Normalize ==
    /\ pc = "normalize"
    /\ A_tilde' = ScaleColumns(A, DegreeVector(A, m, M))
    /\ pc' = "embed"
    /\ UNCHANGED <<m, M, d, k, train_feat, test_feat, cov_matrices, W, eig_vals,
                   eig_vects, A, i, j, writes, singular_vects,
                   training_Set_spherical, test_Set_spherical, thetas_pred,
                   thetas_gt, rmse_val, run, first_run>>

\* ------------------------------------------------------------------ cell 8
\* The column taken for embedding dimension c when nothing is sorted.
SelectColumn_unsorted(vals, c) == c

\* The column of rank c when the eigenvalues are ordered by descending magnitude
\* (equal magnitudes in the order returned).
SelectColumn(vals, c) ==
    CHOOSE a \in DOMAIN vals :
        Cardinality({b \in DOMAIN vals :
            \/ Abs(vals[b]) > Abs(vals[a])
            \/ Abs(vals[b]) = Abs(vals[a]) /\ b < a}) = c

\* psi = (1/sqrt(lambda)) * A_tilde @ phi, row r: not finite (NaN or Inf) when
\* a root or a quotient is undefined, else the terms <<A[r][b]*phi[b], S[b]>>
\* whose sum over b, each divided by sqrt(S[b]*lambda), is the value.
NystromRow(lambda, phi, At, r) ==
    IF lambda <= 0 \/ \E b \in DOMAIN phi : At[r][b][2] <= 0
    THEN [finite |-> FALSE, terms |-> <<>>]
    ELSE [finite |-> TRUE,
          terms  |-> [b \in DOMAIN phi |-> <<At[r][b][1] * phi[b], At[r][b][2]>>]]

compute_d_left_sing_vect(n, vals, vects, At, dim) ==
    [c \in 0 .. (dim - 1) |->
        LET col == SelectColumn(vals, c)
        IN  [col    |-> col,
             lambda |-> vals[col],
             phi    |-> vects[col],
             psi    |-> [r \in 0 .. (n - 1) |-> NystromRow(vals[col], vects[col], At, r)]]]

Embed ==
    /\ pc = "embed"
    /\ singular_vects' = compute_d_left_sing_vect(m + M, eig_vals, eig_vects, A_tilde, d)
    /\ pc' = "interp"
    /\ UNCHANGED <<m, M, d, k, train_feat, test_feat, cov_matrices, W, eig_vals,
                   eig_vects, A, i, j, writes, A_tilde, training_Set_spherical,
                   test_Set_spherical, thetas_pred, thetas_gt, rmse_val, run,
                   first_run>>

\* ------------------------------------------------------------------ cells 3..8
FeatValues == {0, 1}
Covariances == {<<1, p>> : p \in 1 .. MaxPrec}

Init ==
    /\ pc = "affinity"
    /\ m \in 1 .. MaxTrain
    /\ M \in 0 .. MaxTest
    /\ d \in 1 .. m
    /\ train_feat \in [0 .. (m - 1) -> FeatValues]
    /\ test_feat \in [0 .. (M - 1) -> FeatValues]
    /\ cov_matrices \in [0 .. (m - 1) -> Covariances]
    /\ W = None /\ eig_vals = None /\ eig_vects = None
    /\ A = None /\ i = 0 /\ j = 0 /\ writes = None
    /\ A_tilde = None /\ singular_vects = None
    /\ k = None /\ training_Set_spherical = None /\ test_Set_spherical = None
    /\ thetas_pred = None /\ thetas_gt = None /\ rmse_val = None
    /\ run = 1 /\ first_run = None

Next ==
    \/ ComputeAffinity
    \/ Eig
    \/ ExtendA
    \/ FillStep
    \/ Normalize
    \/ Embed

Spec == Init /\ [][Next]_vars

\* ------------------------------------------------------------------ cell 9
\* Rows of an embedding (d = 2 coordinates) and (radius, azimuth, elevation)
\* triples the interpolation is exercised on.
EmbPoints == {<<0, 0>>, <<1, 0>>, <<0, 2>>}
Spherical == {<<1, 0, 1>>, <<1, 2, 3>>}

Dist2(p, q) == (p[1] - q[1]) * (p[1] - q[1]) + (p[2] - q[2]) * (p[2] - q[2])

\* The largest squared distance between two embedding rows: no weight underflows.
GammaBits ==
    CHOOSE g \in 0 .. 64 :
        /\ \A p, q \in EmbPoints : Dist2(p, q) <= g
        /\ \E p, q \in EmbPoints : Dist2(p, q) = g

\* The k training rows nearest to test row ti (np.argsort of the distances: equal
\* distances in index order).
Neighbours(ti, sv) ==
    {a \in Train :
        Cardinality({b \in Train :
            \/ Dist2(sv[m + ti], sv[b]) < Dist2(sv[m + ti], sv[a])
            \/ Dist2(sv[m + ti], sv[b]) = Dist2(sv[m + ti], sv[a]) /\ b < a}) < k}

\* The kernel weight of training row a for test row ti, before normalisation.
RawWeight(ti, sv, a) == Pow2(GammaBits - Dist2(sv[m + ti], sv[a]))

\* The normaliser taken over every training row.
WeightTotal_allRows(ti, sv) ==
    SumOver(Train, [a \in Train |-> RawWeight(ti, sv, a)])

\* The normaliser: the sum of the raw weights of the selected neighbours.
WeightTotal(ti, sv) ==
    SumOver(Neighbours(ti, sv), [a \in Neighbours(ti, sv) |-> RawWeight(ti, sv, a)])

\* gamma_a(T_ti) as the fraction <<numerator, denominator>>.
Gamma(ti, sv) ==
    [a \in Neighbours(ti, sv) |-> <<RawWeight(ti, sv, a), WeightTotal(ti, sv)>>]

\* theta_hat = sum_a gamma_a * theta_bar_a, for azimuth (c = 2) and elevation
\* (c = 3), each as a fraction.
estimate_theta_i(ti, sv, feats, tss) ==
    LET g == Gamma(ti, sv)
        comp(c) == <<SumOver(DOMAIN g, [a \in DOMAIN g |-> g[a][1] * tss[a][c]]),
                     WeightTotal(ti, sv)>>
    IN  <<comp(2), comp(3)>>

\* thetas_pred.append(...) with the ground truth in place of the estimate.
PredEntry_groundTruth(ti) ==
    <<<<test_Set_spherical[ti][2], 1>>, <<test_Set_spherical[ti][3], 1>>>>

\* theta_i_pred = estimate_theta_i(i, singular_vects, train_featVects, training_Set_spherical)
PredEntry(ti) == estimate_theta_i(ti, singular_vects, train_feat, training_Set_spherical)

\* theta_i_gt = np.array([test_Set_spherical[i][1], test_Set_spherical[i][2]])
GtEntry(ti) == <<test_Set_spherical[ti][2], test_Set_spherical[ti][3]>>

PredictStep ==
    /\ pc = "predict"
    /\ thetas_pred' = Append(thetas_pred, PredEntry(i))
    /\ thetas_gt' = Append(thetas_gt, GtEntry(i))
    /\ i' = i + 1
    /\ pc' = IF i + 1 < M THEN "predict" ELSE "rmse"
    /\ UNCHANGED <<m, M, d, k, train_feat, test_feat, cov_matrices, W, eig_vals,
                   eig_vects, A, j, writes, A_tilde, singular_vects,
                   training_Set_spherical, test_Set_spherical, rmse_val, run,
                   first_run>>

\* ------------------------------------------------------------------ cell 10
\* sqrt(mean(||pred_i - gt_i||^2)): kept as the residual fractions
\* <<num - gt*den, den>> of every component of every sample.
rmse(gt, pred) ==
    [t \in DOMAIN pred |->
        <<<<pred[t][1][1] - gt[t][1] * pred[t][1][2], pred[t][1][2]>>,
          <<pred[t][2][1] - gt[t][2] * pred[t][2][2], pred[t][2][2]>>>>]

RmseIsZero(rv) == \A t \in DOMAIN rv : rv[t][1][1] = 0 /\ rv[t][2][1] = 0

Rmse ==
    /\ pc = "rmse"
    /\ rmse_val' = rmse(thetas_gt, thetas_pred)
    /\ pc' = "done"
    /\ UNCHANGED <<m, M, d, k, train_feat, test_feat, cov_matrices, W, eig_vals,
                   eig_vects, A, i, j, writes, A_tilde, singular_vects,
                   training_Set_spherical, test_Set_spherical, thetas_pred,
                   thetas_gt, run, first_run>>

\* The cells are executed a second time with the angles of one test source
\* replaced and every other input as it was.
Rerun ==
    /\ pc = "done"
    /\ run = 1
    /\ first_run' = [thetas_pred |-> thetas_pred, thetas_gt |-> thetas_gt,
                     rmse_val |-> rmse_val, singular_vects |-> singular_vects]
    /\ \E t \in Tests : \E s \in Spherical \ {test_Set_spherical[t]} :
          test_Set_spherical' = [test_Set_spherical EXCEPT ![t] = s]
    /\ thetas_pred' = <<>>
    /\ thetas_gt' = <<>>
    /\ rmse_val' = None
    /\ i' = 0
    /\ run' = 2
    /\ pc' = "predict"
    /\ UNCHANGED <<m, M, d, k, train_feat, test_feat, cov_matrices, W, eig_vals,
                   eig_vects, A, j, writes, A_tilde, singular_vects,
                   training_Set_spherical>>

\* Either one arbitrary test source (the queries are handled one by one, each on
\* its own), or the degenerate self-test: the test sources are the training
\* sources (same rows, same angles), the training rows pairwise distinct.
InitInterp ==
    /\ pc = "predict"
    /\ m \in 1 .. MaxTrain
    /\ d = 2
    /\ k \in 1 .. MaxK
    /\ training_Set_spherical \in [0 .. (m - 1) -> Spherical]
    /\ \/ /\ M = 1
          /\ singular_vects \in [0 .. (m + M - 1) -> EmbPoints]
          /\ test_Set_spherical \in [0 .. (M - 1) -> Spherical]
       \/ /\ M = m
          /\ \E tr \in [0 .. (m - 1) -> EmbPoints] :
                /\ \A a, b \in 0 .. (m - 1) : a # b => tr[a] # tr[b]
                /\ singular_vects = [r \in 0 .. (2 * m - 1) |-> tr[r % m]]
          /\ test_Set_spherical = training_Set_spherical
    /\ thetas_pred = <<>> /\ thetas_gt = <<>> /\ rmse_val = None
    /\ i = 0 /\ j = 0
    /\ run = 1 /\ first_run = None
    /\ train_feat = None /\ test_feat = None /\ cov_matrices = None
    /\ W = None /\ eig_vals = None /\ eig_vects = None
    /\ A = None /\ writes = None /\ A_tilde = None

NextInterp ==
    \/ PredictStep
    \/ Rmse
    \/ Rerun

SpecInterp == InitInterp /\ [][NextInterp]_vars

\* ================================================================== claims
AfterFill == pc \in {"normalize", "embed", "interp"}

\* exp(-q/epsilon) for the quadratic form q = x * (1/c) * x, in kernel fixed point.
ExpectedKernel(x, c) ==
    LET q2 == (2 * x * x * c[2]) \div c[1]
    IN  IF q2 > KernelBits THEN 0 ELSE Pow2(KernelBits - q2)

\* C1: once the fill loop has ended, A has m+M rows of m columns, its top m rows
\* are W (never stored to, W itself as computed), and entry (m+i, j) is the kernel
\* of test feature i and training feature j under the inverse covariance of
\* training source j, stored exactly once.
C1_ExtendedAffinity ==
    /\ pc \in {"fill"} \cup {"normalize", "embed", "interp"} =>
          /\ DOMAIN A = Rows
          /\ \A r \in Rows : DOMAIN A[r] = Train
          /\ W = compute_affinity_matrix(cov_matrices, train_feat, m)
          /\ \A r \in Train : \A c \in Train : A[r][c] = W[r][c] /\ writes[r][c] = 0
    /\ AfterFill =>
          \A t \in Tests : \A c \in Train :
              /\ A[m + t][c] = ExpectedKernel(test_feat[t] - train_feat[c], cov_matrices[c])
              /\ writes[m + t][c] = 1

C1_Witness ==
    /\ pc = "normalize"
    /\ m >= 2 /\ M >= 2
    /\ A[m][0] # A[m][1]
    /\ A[m] # A[m + 1]
    /\ A[m + 1] # A[1]

C4_NoNonPositiveEigenvalue ==
    pc = "interp" =>
        \A c \in DOMAIN singular_vects :
            /\ singular_vects[c].lambda > 0
            /\ \A r \in Rows : singular_vects[c].psi[r].finite

\* C5: when the covariance of training source j is singular or ill-conditioned,
\* the run stops at the pair that inverts it: no kernel value of column j is
\* ever stored to a test row of A.
C5_IllConditionedStops ==
    pc \in {"fill", "normalize", "embed", "interp"} =>
        \A c \in Train :
            IllConditioned(cov_matrices[c]) => \A t \in Tests : writes[m + t][c] = 0

C10_PositiveDegree ==
    (/\ pc \in {"embed", "interp"}
     /\ \A r \in Rows : \A c \in Train : A[r][c] >= 0
     /\ \A c \in Train : A[c][c] = Unit) =>
        \A r \in Rows : \A c \in Train :
            /\ A_tilde[r][c][2] > 0
            /\ A_tilde[r][c][1] = A[r][c]
            /\ A_tilde[r][c][2] = A_tilde[0][c][2]

C10_Witness ==
    /\ pc = "embed"
    /\ M >= 1
    /\ \A c \in Train : A[c][c] = Unit
    /\ \E c \in Train : \A t \in Tests : A[m + t][c] = 0

\* The smallest and the largest value of component c among the training angles
\* of the neighbours N.
MinAngle(N, tss, c) == CHOOSE x \in {tss[a][c] : a \in N} : \A a \in N : x <= tss[a][c]
MaxAngle(N, tss, c) == CHOOSE x \in {tss[a][c] : a \in N} : \A a \in N : x >= tss[a][c]

SelfTest ==
    /\ M = m
    /\ \A t \in Tests :
          /\ singular_vects[m + t] = singular_vects[t]
          /\ test_Set_spherical[t] = training_Set_spherical[t]

====
